---- MODULE Spec2Model ----
(***************************************************************************)
(* Elarus translation gateway (src/main.js): request validation, the       *)
(* rate limiter, the cache read / upstream call with backoff / cache write *)
(* pipeline of processTranslation, and the way Express turns errors into   *)
(* responses; and the playground page that calls it                       *)
(* (src/unnamed/part_000): makeRequest and its AbortController.            *)
(*                                                                         *)
(* Strings are sequences of one-character strings, so that trim(), length  *)
(* and the target-language regular expression are computed, not assumed.   *)
(*                                                                         *)
(* Where a definition translated from the source is preceded by            *)
(* definitions with the same parameters and no comment of their own, those *)
(* are variants of the code: each property below is checked to fail when   *)
(* a variant takes the place of the definition it precedes.                *)
(***************************************************************************)
EXTENDS Integers, Sequences, FiniteSets, TLC

\* ------------------------------------------------------------------------
\* Configuration (src/main.js 11-18)
\* ------------------------------------------------------------------------
CACHE_EXPIRY_SECONDS == 604800
MAX_RETRIES == 5
BASE_DELAY == 1000
MAX_TEXT_LENGTH == 2000
WindowMs == 1000
LimitMax == 1

\* ------------------------------------------------------------------------
\* Bounds of the model
\* ------------------------------------------------------------------------
MaxReqs == 2        \* requests handled in one behaviour (they may overlap)
MaxFaults == 1      \* failed upstream attempts where requests overlap
MaxCalls == 3        \* invocations of makeRequest on the playground page

\* ------------------------------------------------------------------------
\* JavaScript values and strings
\* ------------------------------------------------------------------------
WS == {" ", "\n"}
Letters == {"a","b","c","d","e","f","g","h","i","j","k","l","m","n","o","p","q",
            "r","s","t","u","v","w","x","y","z","A","B","C","D","E","F","G","H",
            "I","J","K","L","M","N","O","P","Q","R","S","T","U","V","W","X","Y","Z"}

Rep(c, n) == [i \in 1..n |-> c]

JsUndef == [t |-> "undefined", s |-> <<>>, n |-> 0]
JsStr(s) == [t |-> "string", s |-> s, n |-> 0]
JsNum(n) == [t |-> "number", s |-> <<>>, n |-> n]

\* JavaScript truthiness of a value, as `||` and `!` see it.
Truthy(v) ==
    CASE v.t = "undefined" -> FALSE
      [] v.t = "string" -> Len(v.s) > 0
      [] v.t = "number" -> v.n # 0

\* (v || '')
OrEmpty(v) == IF Truthy(v) THEN v ELSE JsStr(<<>>)

RECURSIVE LeadWs(_, _)
LeadWs(s, i) == IF i > Len(s) \/ s[i] \notin WS THEN i - 1 ELSE LeadWs(s, i + 1)

RECURSIVE TrailWs(_, _)
TrailWs(s, i) == IF i < 1 \/ s[i] \notin WS THEN Len(s) - i ELSE TrailWs(s, i - 1)

\* String.prototype.trim
Trim(s) ==
    IF \A i \in 1..Len(s) : s[i] \in WS
    THEN <<>>
    ELSE SubSeq(s, LeadWs(s, 1) + 1, Len(s) - TrailWs(s, Len(s)))

\* /^[A-Za-z\s\-]+$/.test(s)
LangFormatOkLoose(s) == \A i \in 1..Len(s) : s[i] \in Letters \cup WS \cup {"-", "1"}
LangFormatOk(s) == Len(s) > 0 /\ \A i \in 1..Len(s) : s[i] \in Letters \cup WS \cup {"-"}

\* ------------------------------------------------------------------------
\* Errors (class TranslationError, src/main.js 56-63)
\* ------------------------------------------------------------------------
\* A message is a fixed text, with one interpolated number where it has a '#'.
Msg(s) == [s |-> s, n |-> 0]
MsgNum(s, n) == [s |-> s, n |-> n]

\* the `details` of an error: null, or a string
NullDetails == [null |-> TRUE, s |-> "", n |-> 0]
StrDetails(m) == [null |-> FALSE, s |-> m.s, n |-> m.n]

\* new TranslationError(message, statusCode = 400, details = null)
TranslationError(message, statusCode, details) ==
    [cls |-> "TranslationError", message |-> message,
     statusCode |-> statusCode, details |-> details]

\* any other thrown Error: no details field; statusCode 0 stands for "not set"
PlainError(cls, message, statusCode) ==
    [cls |-> cls, message |-> message, statusCode |-> statusCode, details |-> NullDetails]

NoError == [cls |-> "none", message |-> Msg(""), statusCode |-> 0, details |-> NullDetails]

\* ------------------------------------------------------------------------
\* validateInput (src/main.js 66-99)
\* ------------------------------------------------------------------------
NoBody == [present |-> FALSE, text |-> JsUndef, target_lang |-> JsUndef]
Body(text, lang) == [present |-> TRUE, text |-> text, target_lang |-> lang]

Threw(e) == [ok |-> FALSE, text |-> <<>>, targetLang |-> <<>>, err |-> e]
Validated(text, lang) == [ok |-> TRUE, text |-> text, targetLang |-> lang, err |-> NoError]

TooLongRaw(raw, text) == Len(raw) > MAX_TEXT_LENGTH
TooLongGe(raw, text) == Len(text) >= MAX_TEXT_LENGTH
\* if (text.length > MAX_TEXT_LENGTH)
TooLong(raw, text) == Len(text) > MAX_TEXT_LENGTH

validateInputLangFirst(data) ==
    IF ~data.present
    THEN Threw(TranslationError(Msg("Request must be JSON"), 400, NullDetails))
    ELSE
    LET t == OrEmpty(data.text)
        l == OrEmpty(data.target_lang)
    IN  IF t.t # "string"
        THEN Threw(PlainError("TypeError", Msg("(data.text || '').trim is not a function"), 0))
        ELSE IF l.t # "string"
        THEN Threw(PlainError("TypeError", Msg("(data.target_lang || '').trim is not a function"), 0))
        ELSE
        LET text == Trim(t.s)
            targetLang == Trim(l.s)
        IN  IF Len(targetLang) = 0
            THEN Threw(TranslationError(Msg("Target language cannot be empty"), 400, NullDetails))
            ELSE IF TooLong(t.s, text)
            THEN Threw(TranslationError(MsgNum("Text too long. Maximum # characters.", MAX_TEXT_LENGTH),
                       400, StrDetails(MsgNum("Text length: # characters", Len(text)))))
            ELSE IF Len(text) = 0
            THEN Threw(TranslationError(Msg("Text cannot be empty"), 400, NullDetails))
            ELSE IF ~LangFormatOk(targetLang)
            THEN Threw(TranslationError(Msg("Invalid target language format"), 400,
                       StrDetails(Msg("Use only letters, spaces, and hyphens"))))
            ELSE Validated(text, targetLang)

validateInput(data) ==
    IF ~data.present
    THEN Threw(TranslationError(Msg("Request must be JSON"), 400, NullDetails))
    ELSE
    LET t == OrEmpty(data.text)
        l == OrEmpty(data.target_lang)
    IN  IF t.t # "string"
        THEN Threw(PlainError("TypeError", Msg("(data.text || '').trim is not a function"), 0))
        ELSE IF l.t # "string"
        THEN Threw(PlainError("TypeError", Msg("(data.target_lang || '').trim is not a function"), 0))
        ELSE
        LET text == Trim(t.s)
            targetLang == Trim(l.s)
        IN  IF TooLong(t.s, text)
            THEN Threw(TranslationError(MsgNum("Text too long. Maximum # characters.", MAX_TEXT_LENGTH),
                       400, StrDetails(MsgNum("Text length: # characters", Len(text)))))
            ELSE IF Len(text) = 0
            THEN Threw(TranslationError(Msg("Text cannot be empty"), 400, NullDetails))
            ELSE IF Len(targetLang) = 0
            THEN Threw(TranslationError(Msg("Target language cannot be empty"), 400, NullDetails))
            ELSE IF ~LangFormatOk(targetLang)
            THEN Threw(TranslationError(Msg("Invalid target language format"), 400,
                       StrDetails(Msg("Use only letters, spaces, and hyphens"))))
            ELSE Validated(text, targetLang)

\* ------------------------------------------------------------------------
\* getSourceLanguage (src/main.js 101-122)
\* ------------------------------------------------------------------------
\* franc(text): the detector's three-letter code. It is a deterministic
\* function of the text; "und" is its answer for text it cannot place.
franc(text) ==
    IF Len(text) >= 2 /\ text[1] = "H" THEN "eng"
    ELSE IF Len(text) >= 2 /\ text[1] = "S" THEN "swe"
    ELSE "und"

languageMapKeys == {"eng", "spa", "fra", "deu", "ita", "por", "rus", "jpn", "kor", "zho", "ara"}

languageMap(code) ==
    CASE code = "eng" -> "EN" [] code = "spa" -> "ES" [] code = "fra" -> "FR"
      [] code = "deu" -> "DE" [] code = "ita" -> "IT" [] code = "por" -> "PT"
      [] code = "rus" -> "RU" [] code = "jpn" -> "JA" [] code = "kor" -> "KO"
      [] code = "zho" -> "ZH" [] code = "ara" -> "AR"

toUpperCase(code) ==
    CASE code = "swe" -> "SWE" [] code = "und" -> "UND" [] OTHER -> code

getSourceLanguage(text) ==
    LET langCode == franc(text)
    IN  IF langCode \in languageMapKeys THEN languageMap(langCode) ELSE toUpperCase(langCode)

\* ------------------------------------------------------------------------
\* Cache key and cache value (src/main.js 188, 231-237, 196)
\* ------------------------------------------------------------------------
KeyPrefix == <<"t","r","a","n","s","l","a","t","i","o","n",":">>

cacheKeyNoSeparator(text, targetLang) == KeyPrefix \o text \o targetLang
\* `translation:${textToTranslate}|${targetLang}`
cacheKeyNoLang(text, targetLang) == KeyPrefix \o text
cacheKey(text, targetLang) == KeyPrefix \o text \o <<"|">> \o targetLang

\* { source_language, translated_text, timestamp, model }; the timestamp
\* is written and never read: it is kept as the expression that sets it
cacheData(src, translated) ==
    [source_language |-> src, translated_text |-> translated,
     timestamp |-> "Date.now()", model |-> "openai/gpt-oss-120b"]

NoData == cacheData("", <<>>)

\* A stored string: the JSON text of an object, or a string that is no JSON.
JSONstringify(obj) == [json |-> TRUE, obj |-> obj]
Garbage == [json |-> FALSE, obj |-> NoData]

\* redisClient.setEx(key, seconds, value) stores the value with its
\* time-to-live (0: the entry has none).
NoEntry == [present |-> FALSE, val |-> Garbage, ttl |-> 0]
Entry(val, ttl) == [present |-> TRUE, val |-> val, ttl |-> ttl]

\* ------------------------------------------------------------------------
\* One upstream attempt (src/main.js 146-170)
\* ------------------------------------------------------------------------
\* A reply of the upstream: the transport fails, or an HTTP status with a
\* body; the body is unparseable, or has a list of choices; a choice has a
\* message content or lacks its message.
Reply(net, status, json, choices) ==
    [net |-> net, status |-> status, json |-> json, choices |-> choices]
Content(c) == [has |-> TRUE, content |-> c]
NoMessage == [has |-> FALSE, content |-> <<>>]

AttemptOk(text) == [ok |-> TRUE, text |-> text, err |-> NoError]
AttemptThrew(e) == [ok |-> FALSE, text |-> <<>>, err |-> e]

\* response.ok
ResponseOk(status) == status >= 200 /\ status <= 299

AnyChoiceAttempt(reply) ==
    IF ~reply.net THEN AttemptThrew(PlainError("FetchError", Msg("request failed"), 0))
    ELSE IF ~ResponseOk(reply.status)
    THEN AttemptThrew(PlainError("Error", MsgNum("HTTP error! status: #", reply.status), 0))
    ELSE IF \E i \in 1..Len(reply.choices) :
                reply.choices[i].has /\ Len(Trim(reply.choices[i].content)) > 0
    THEN LET i == CHOOSE j \in 1..Len(reply.choices) :
                    reply.choices[j].has /\ Len(Trim(reply.choices[j].content)) > 0
         IN  AttemptOk(Trim(reply.choices[i].content))
    ELSE AttemptThrew(PlainError("Error", Msg("LLM returned empty translation text."), 0))

UntrimmedAttempt(reply) ==
    IF ~reply.net THEN AttemptThrew(PlainError("FetchError", Msg("request failed"), 0))
    ELSE IF ~ResponseOk(reply.status)
    THEN AttemptThrew(PlainError("Error", MsgNum("HTTP error! status: #", reply.status), 0))
    ELSE IF reply.json /\ Len(reply.choices) > 0 /\ reply.choices[1].has
    THEN AttemptOk(reply.choices[1].content)
    ELSE AttemptThrew(PlainError("Error", Msg("API returned unparseable response structure."), 0))

\* The body of the try block for one reply: the translated text, or the
\* error thrown.
Attempt(reply) ==
    IF ~reply.net
    THEN AttemptThrew(PlainError("FetchError", Msg("request failed"), 0))
    ELSE IF ~ResponseOk(reply.status)
    THEN AttemptThrew(PlainError("Error", MsgNum("HTTP error! status: #", reply.status), 0))
    ELSE IF ~reply.json
    THEN AttemptThrew(PlainError("SyntaxError", Msg("invalid json response body"), 0))
    ELSE IF Len(reply.choices) > 0
    THEN IF ~reply.choices[1].has
         THEN AttemptThrew(PlainError("TypeError",
                  Msg("Cannot read properties of undefined (reading 'content')"), 0))
         ELSE LET translatedText == Trim(reply.choices[1].content)
              IN  IF Len(translatedText) = 0
                  THEN AttemptThrew(PlainError("Error",
                           Msg("LLM returned empty translation text."), 0))
                  ELSE AttemptOk(translatedText)
    ELSE AttemptThrew(PlainError("Error",
             Msg("API returned unparseable response structure."), 0))

\* ------------------------------------------------------------------------
\* Re-classification of an upstream failure (src/main.js 245-266)
\* ------------------------------------------------------------------------
\* message.includes(needle), for the messages and needles of this program
Includes(m, needle) ==
    CASE m.s = "HTTP error! status: #" -> needle = "HTTP error"
      [] m.s = "LLM returned empty translation text." -> needle = "empty translation"
      [] OTHER -> FALSE

MatchStatusAlways500(m) == 500
\* parseInt(error.message.match(/status: (\d+)/)?.[1] || 500)
MatchStatus(m) == IF m.s = "HTTP error! status: #" THEN m.n ELSE 500

Classify(error) ==
    IF Includes(error.message, "HTTP error")
    THEN TranslationError(MsgNum("Groq API Error (#)", MatchStatus(error.message)),
                          MatchStatus(error.message), StrDetails(error.message))
    ELSE IF Includes(error.message, "empty translation")
    THEN TranslationError(
             Msg("The model struggled to generate a translation. The input may be too short or ambiguous."),
             400, StrDetails(error.message))
    ELSE TranslationError(Msg("An internal server error occurred"), 500,
                          StrDetails(error.message))

\* ------------------------------------------------------------------------
\* Responses
\* ------------------------------------------------------------------------
\* { source_language, target_language, translated_text, status }
Result(src, lang, translated, status) ==
    [source_language |-> src, target_language |-> lang,
     translated_text |-> translated, status |-> status]

NoResult == Result("", <<>>, <<>>, "")

\* A response: its HTTP status and its body. The body is a translation
\* result (kind "result"), the JSON object {error, details, status_code}
\* (kind "error"), or an HTML page (kind "html") that shows the error's
\* stack trace when `stack` is set.
NoResp ==
    [status |-> 0, kind |-> "none", result |-> NoResult, error |-> Msg(""),
     details |-> NullDetails, status_code |-> 0, stack |-> FALSE]

\* res.json(result)
ResultResp(result) == [NoResp EXCEPT !.status = 200, !.kind = "result", !.result = result]

\* res.status(status).json({ error, details, status_code })
ErrorResp(status, error, details, status_code) ==
    [NoResp EXCEPT !.status = status, !.kind = "error", !.error = error,
                   !.details = details, !.status_code = status_code]

\* ------------------------------------------------------------------------
\* The middleware stack, in order of registration (src/main.js 38-40,
\* 270-285, 288, 311, 327, 344)
\* ------------------------------------------------------------------------
StackErrorHandlerLast == <<"cors", "json", "static", "health", "translate",
                           "retranslate", "root", "errorHandler">>
Stack == <<"cors", "json", "static", "errorHandler", "health", "translate",
           "retranslate", "root">>

LayerIndex(name) == CHOOSE i \in 1..Len(Stack) : Stack[i] = name

\* app.use((error, req, res, next) => ...), src/main.js 270-285
AppErrorHandler(error) ==
    IF error.cls = "TranslationError"
    THEN ErrorResp(error.statusCode, error.message, error.details, error.statusCode)
    ELSE ErrorResp(500, Msg("Internal server error"), StrDetails(error.message), 500)

\* What Express answers when next(error) finds no error-handling middleware
\* further down the stack: the status the error carries when that is a 4xx
\* or 5xx, else 500, and an HTML page, with the stack trace unless the
\* process runs in production mode.
DefaultHandler(error, production) ==
    [NoResp EXCEPT
        !.status = IF error.statusCode >= 400 /\ error.statusCode <= 599
                   THEN error.statusCode ELSE 500,
        !.kind = "html",
        !.stack = ~production]

\* next(error) called by the layer `from`: Express passes the error to the
\* first error-handling middleware registered after that layer.
DispatchError(from, error, production) ==
    IF \E j \in (LayerIndex(from) + 1)..Len(Stack) : Stack[j] = "errorHandler"
    THEN AppErrorHandler(error)
    ELSE DefaultHandler(error, production)

\* ------------------------------------------------------------------------
\* Rate limiter (src/main.js 43-54)
\* ------------------------------------------------------------------------
\* keyGenerator: req.headers['x-forwarded-for'] || req.ip
\* (an absent header is the empty string here: both are falsy)
keyGeneratorIpOnly(ident) == ident.ip
keyGenerator(ident) == IF ident.xff # "" THEN ident.xff ELSE ident.ip

\* the limiter's `message`, sent with status 429
LimitResp ==
    ErrorResp(429, Msg("Rate limit exceeded"), StrDetails(Msg("Try again in 1 second")), 429)

\* Times are kept as durations: what is left of a window or of a sleep.
\* The time left of the window a hit falls in: windows are counted per
\* identity from its first hit ("client"), or for all identities from the
\* start of the process ("global"), as the limiter's store has it; `phase`
\* is the time since the last global window boundary.
WindowLeft(kind, phase) == IF kind = "client" THEN WindowMs ELSE WindowMs - phase

NoHits == [count |-> 0, left |-> 0]

\* the store's record of an identity after d ms: reset when its window is over
Aged(h, d) == IF h.left <= d THEN NoHits ELSE [h EXCEPT !.left = h.left - d]

\* increment: a first hit opens a window
HitNever(h, left) == h
Hit(h, left) ==
    IF h.count = 0 THEN [count |-> 1, left |-> left]
    ELSE [h EXCEPT !.count = h.count + 1]

LimitedOff(h) == FALSE
\* the request is refused when its hit takes the count over `max`
Limited(h) == h.count > LimitMax

\* ------------------------------------------------------------------------
\* Inputs of the model
\* ------------------------------------------------------------------------
Hi == <<"H", "i">>
Fr == <<"f", "r">>
De == <<"d", "e">>

BodyHiFr == Body(JsStr(Hi), JsStr(Fr))
BodyHiDe == Body(JsStr(<<" ">> \o Hi \o <<" ">>), JsStr(De))
BodyEmptyText == Body(JsStr(<<>>), JsStr(Fr))
BodyNumberText == Body(JsNum(5), JsStr(Fr))

\* request bodies as express.json() hands them to the routes
RawBodies == {BodyHiFr, BodyHiDe, BodyEmptyText, BodyNumberText, NoBody}

\* a request body: text that is no JSON, or one of the bodies above
Parsed(b) == [malformed |-> FALSE, data |-> b]
Malformed == [malformed |-> TRUE, data |-> NoBody]
Raws == {Malformed} \cup {Parsed(b) : b \in RawBodies}

\* x-forwarded-for header ("" when absent) and connection address
Idents == { [xff |-> "", ip |-> "ip1"],
            [xff |-> "p1", ip |-> "ip1"] }

Identities == {"ip1", "p1"}

Routes == {"translate", "retranslate"}

ValidPairs == { <<v.text, v.targetLang>> :
                  v \in {w \in {validateInput(b) : b \in RawBodies} : w.ok} }

StoreKeys == {cacheKey(p[1], p[2]) : p \in ValidPairs}
             \cup {cacheKeyNoLang(p[1], p[2]) : p \in ValidPairs}

Hola == <<"H", "o", "l", "a">>
Salut == <<"S", "a", "l", "u", "t">>

\* replies of the upstream
ReplyTransport == Reply(FALSE, 0, FALSE, <<>>)
Reply503 == Reply(TRUE, 503, FALSE, <<>>)
Reply429 == Reply(TRUE, 429, TRUE, <<>>)
ReplyNoJson == Reply(TRUE, 200, FALSE, <<>>)
ReplyNoChoices == Reply(TRUE, 200, TRUE, <<>>)
ReplyNoMessage == Reply(TRUE, 200, TRUE, <<NoMessage>>)
ReplyBlankFirst == Reply(TRUE, 200, TRUE, <<Content(<<" ", " ">>), Content(Hola)>>)
ReplyHola == Reply(TRUE, 200, TRUE, <<Content(<<" ">> \o Hola \o <<"\n">>)>>)
ReplySalut == Reply(TRUE, 200, TRUE, <<Content(Salut), Content(Hola)>>)

\* no reply received yet
NoReply == Reply(FALSE, 0, FALSE, <<>>)

Replies == {ReplyTransport, Reply503, Reply429, ReplyNoJson, ReplyNoChoices,
            ReplyNoMessage, ReplyBlankFirst, ReplyHola, ReplySalut}

\* ------------------------------------------------------------------------
\* State
\* ------------------------------------------------------------------------
VARIABLES
    apiKey,       \* API_KEY is set (src/main.js 13)
    production,   \* the process runs in production mode
    limiterKind,  \* how the limiter's store counts its windows
    redisClient,  \* "client", or "null" (src/main.js 21-35)
    store,        \* the cache store: key -> entry
    hits,         \* the limiter's store: identity -> hits and time left of its window
    phase,        \* ms since the last boundary of the global limiter window
    since,        \* client -> ms since its last request reached the limiter
    sinceAdmitted, \* client -> ms since the limiter last let a request of it through
    log,          \* (text, targetLang) -> what changed its cache entry: the slot
                  \* of the request that wrote it, 0 where the store dropped it
    req,          \* the requests: slot -> state of its handling
    faults,       \* failed attempts answered by the upstream
    health,       \* the last answer of GET /api/health
    env,          \* what the environment of this behaviour may send and answer
    vin,          \* validateInput on its own: the input
    vout,         \* validateInput on its own: the outcome
    kin,          \* the cache key on its own: two request bodies
    kout,         \* the cache key on its own: their validated pairs and keys
    currentRequest, \* playground: 0 (null) or the AbortController of a call
    buttons,      \* playground: the disabled property of the two buttons
    resultDiv,    \* playground: what the result element shows
    calls         \* playground: the invocations of makeRequest

vars == <<apiKey, production, limiterKind, redisClient, store, log, hits, phase, since,
          sinceAdmitted, req, faults, health, env, vin, vout, kin, kout,
          currentRequest, buttons, resultDiv, calls>>

\* the playground page (src/unnamed/part_000)
page == <<currentRequest, buttons, resultDiv, calls>>

\* the variables set when the process starts, and those of the functions
\* and of the page taken on their own, which the server leaves alone
config == <<apiKey, production, limiterKind, env, vin, vout, kin, kout, page>>

Slots == DOMAIN req

IdleReq ==
    [pc |-> "idle", route |-> "", ident |-> [xff |-> "", ip |-> ""],
     stage |-> "", forceRefresh |-> FALSE,
     text |-> <<>>, targetLang |-> <<>>, src |-> "", attempt |-> 0,
     currentDelay |-> 0, sleepLeft |-> 0, delays |-> <<>>, errs |-> <<>>,
     thrown |-> NoError, err |-> NoError, lastReply |-> NoReply,
     translated |-> <<>>, resp |-> NoResp,
     nGet |-> 0, nSet |-> 0, nFetch |-> 0,
     read |-> "none", wrote |-> FALSE, cacheOk |-> FALSE, logEnd |-> 0,
     gap |-> 0, gapAdmitted |-> 0, phase |-> 0, seen |-> {}]

NoValidation == Threw(NoError)

\* no keys are being compared
NoKeys == <<>>
KeysAtRest == kin = <<NoBody, NoBody>> /\ kout = NoKeys

\* let currentRequest = null
NoController == 0
\* the page as loaded: no request made, both buttons enabled
Enabled == [translateBtn |-> FALSE, retranslateBtn |-> FALSE]
PageAtRest ==
    /\ currentRequest = NoController
    /\ buttons = Enabled
    /\ resultDiv = "empty"
    /\ calls = <<>>

\* ------------------------------------------------------------------------
\* processTranslation and callGroqApiWithBackoff, step by step
\* (src/main.js 128-267). A step runs from one await to the next.
\* ------------------------------------------------------------------------
\* processTranslation(text, targetLang, clientIp, false | true)
ForceRefreshNever(route) == FALSE
ForceRefreshOf(route) == route = "retranslate"

StatusTypeSame(forceRefresh) == "generated"
\* forceRefresh ? "regenerated" : "generated"
StatusType(forceRefresh) == IF forceRefresh THEN "regenerated" ELSE "generated"

ReadsCacheAlways(forceRefresh, client) == client = "client"
ReadsCacheNever(forceRefresh, client) == FALSE
\* if (!forceRefresh && redisClient)
ReadsCache(forceRefresh, client) == ~forceRefresh /\ client = "client"

WritesCacheNever(client) == FALSE
WritesCacheAlways(client) == TRUE
\* if (redisClient)
WritesCache(client) == client = "client"

ShouldRetryOneLess(attempt) == attempt < MAX_RETRIES - 2
ShouldRetryOneMore(attempt) == attempt < MAX_RETRIES
\* if (attempt < MAX_RETRIES - 1)
ShouldRetry(attempt) == attempt < MAX_RETRIES - 1

NextDelayConstant(d) == d
\* currentDelay *= 2
NextDelay(d) == d * 2

CachedResultFreshSource(obj, src, targetLang) ==
    Result(src, targetLang, obj.translated_text, "cached")
\* the result returned on a cache hit (src/main.js 197-202)
CachedResult(obj, src, targetLang) ==
    Result(obj.source_language, targetLang, obj.translated_text, "cached")

\* the response is sent; the locals of the call are gone
Finish(q, resp) ==
    [q EXCEPT !.pc = "done", !.resp = resp, !.currentDelay = 0,
              !.logEnd = IF <<q.text, q.targetLang>> \in DOMAIN log
                         THEN Len(log[<<q.text, q.targetLang>>]) ELSE 0]

\* next(error), called by the layer `from`
Fail(q, from, error, prod) ==
    [Finish(q, DispatchError(from, error, prod)) EXCEPT !.err = error]

\* callGroqApiWithBackoff is entered: first attempt, currentDelay = BASE_DELAY
StartFetch(q) ==
    [q EXCEPT !.pc = "fetch", !.attempt = 0, !.currentDelay = BASE_DELAY,
              !.nFetch = q.nFetch + 1]

\* processTranslation up to its first await
StartTranslation(q, client) ==
    IF ReadsCache(q.forceRefresh, client)
    THEN [q EXCEPT !.pc = "get", !.nGet = q.nGet + 1]
    ELSE StartFetch(q)

HandleNoKeyCheck(q, data, client, key, prod) ==
    LET v == validateInput(data)
    IN  IF ~v.ok
        THEN Fail(q, q.route, v.err, prod)
        ELSE StartTranslation(
                 [q EXCEPT !.text = v.text, !.targetLang = v.targetLang,
                           !.src = getSourceLanguage(v.text)], client)

\* The route handler up to its first await (src/main.js 311-341), for a
\* request the limiter has let through.
Handle(q, data, client, key, prod) ==
    IF ~key
    THEN Fail(q, q.route,
              TranslationError(Msg("API key not configured"), 500, NullDetails), prod)
    ELSE LET v == validateInput(data)
         IN  IF ~v.ok
             THEN Fail(q, q.route, v.err, prod)
             ELSE StartTranslation(
                      [q EXCEPT !.text = v.text, !.targetLang = v.targetLang,
                                !.src = getSourceLanguage(v.text)], client)

Done == {r \in Slots : req[r].pc = "done"}

\* the identity of the client that sends a request: the x-forwarded-for
\* header when it has one, else the address of its connection
ClientOf(ident) == IF ident.xff # "" THEN ident.xff ELSE ident.ip

\* A request arrives: express.json() parses its body, the limiter counts
\* it, and the route handler runs up to its first await.
Receive(r, route, raw, ident) ==
    /\ req[r].pc = "idle"
    /\ \A p \in Slots : p < r => req[p].pc # "idle"
    /\ LET id == keyGenerator(ident)
           c == ClientOf(ident)
           q0 == [IdleReq EXCEPT !.route = route, !.ident = ident,
                                 !.forceRefresh = ForceRefreshOf(route),
                                 !.seen = Done, !.cacheOk = redisClient = "client"]
           q1 == [q0 EXCEPT !.stage = "limiter", !.gap = since[c],
                            !.gapAdmitted = sinceAdmitted[c], !.phase = phase]
           h == Hit(hits[id], WindowLeft(limiterKind, phase))
       IN  IF raw.malformed
           THEN /\ req' = [req EXCEPT ![r] =
                              Fail([q0 EXCEPT !.stage = "json"], "json",
                                   PlainError("SyntaxError", Msg("Unexpected token in JSON"), 400),
                                   production)]
                /\ UNCHANGED <<hits, since, sinceAdmitted>>
           ELSE /\ hits' = [hits EXCEPT ![id] = h]
                /\ since' = [since EXCEPT ![c] = 0]
                /\ sinceAdmitted' = IF Limited(h) THEN sinceAdmitted
                                    ELSE [sinceAdmitted EXCEPT ![c] = 0]
                /\ req' = [req EXCEPT ![r] =
                              IF Limited(h) THEN Finish(q1, LimitResp)
                              ELSE Handle([q1 EXCEPT !.stage = "route"], raw.data,
                                          redisClient, apiKey, production)]
    /\ UNCHANGED <<config, health, redisClient, store, log, phase, faults>>

CacheReadPropagates(q, fault, e, prod) ==
    IF fault \/ (e.present /\ ~e.val.json)
    THEN Fail([q EXCEPT !.read = IF fault THEN "threw" ELSE "unparseable"], q.route,
              PlainError("Error", Msg("cache read failed"), 0), prod)
    ELSE IF e.present
    THEN Finish([q EXCEPT !.read = "hit"],
                ResultResp(CachedResult(e.val.obj, q.src, q.targetLang)))
    ELSE StartFetch([q EXCEPT !.read = "miss"])

\* the outcome of the cache read (src/main.js 193-206): a value that parses
\* is returned as the result; no value, a value that does not parse and a
\* get that throws all lead on to the upstream call
CacheRead(q, fault, e, prod) ==
    IF ~fault /\ e.present /\ e.val.json
    THEN Finish([q EXCEPT !.read = "hit"],
                ResultResp(CachedResult(e.val.obj, q.src, q.targetLang)))
    ELSE StartFetch([q EXCEPT !.read = IF fault THEN "threw"
                                       ELSE IF e.present THEN "unparseable" ELSE "miss"])

\* redisClient.get(cacheKey) returns or throws (src/main.js 193-206)
GetReturn(r, fault) ==
    /\ req[r].pc = "get"
    /\ LET q == [req[r] EXCEPT !.cacheOk = @ /\ ~fault]
       IN  req' = [req EXCEPT ![r] =
                      CacheRead(q, fault, store[cacheKey(q.text, q.targetLang)], production)]
    /\ UNCHANGED <<config, health, redisClient, store, log, hits, phase, since, sinceAdmitted, faults>>

\* the errors thrown by the attempts of a call, kept where the behaviour
\* is one that records them
Thrown(q, e) == IF env.track THEN [q EXCEPT !.errs = Append(q.errs, e)] ELSE q

\* the reply of the last attempt, kept likewise
Received(q, reply) == IF env.track THEN [q EXCEPT !.lastReply = reply] ELSE q

ExhaustedGeneric(e) == PlainError("Error", Msg("Translation failed after maximum retries."), 0)
\* the last attempt has failed: throw error (src/main.js 177-179)
Exhausted(e) == e

RethrowAfterWrite(q, e, prod) == [q EXCEPT !.thrown = e, !.pc = "set", !.nSet = @ + 1]
\* callGroqApiWithBackoff has thrown e: processTranslation rethrows it as a
\* TranslationError and the route passes that to next (src/main.js 245-266)
Rethrow(q, e, prod) ==
    Fail([q EXCEPT !.thrown = e], q.route, Classify(e), prod)

\* one attempt's fetch completes (src/main.js 146-180, 218-266)
FetchReturn(r, reply) ==
    /\ req[r].pc = "fetch"
    /\ Attempt(reply).ok \/ faults < env.faults
    /\ faults' = IF Attempt(reply).ok THEN faults ELSE faults + 1
    /\ LET q == Received(req[r], reply)
           a == Attempt(reply)
       IN  req' = [req EXCEPT ![r] =
                      IF a.ok
                      THEN IF WritesCache(redisClient)
                           THEN [q EXCEPT !.pc = "set", !.translated = a.text,
                                          !.nSet = q.nSet + 1]
                           ELSE Finish([q EXCEPT !.translated = a.text,
                                                 !.cacheOk = @ /\ redisClient = "client"],
                                    ResultResp(Result(q.src, q.targetLang, a.text,
                                                      StatusType(q.forceRefresh))))
                      ELSE IF ShouldRetry(q.attempt)
                      THEN [Thrown(q, a.err) EXCEPT !.pc = "sleep",
                                                    !.sleepLeft = q.currentDelay]
                      ELSE Rethrow(Thrown(q, a.err), Exhausted(a.err), production)]
    /\ UNCHANGED <<config, health, redisClient, store, log, hits, phase, since, sinceAdmitted>>

\* for (...; attempt < MAX_RETRIES; attempt++)
LoopContinues(attempt) == attempt < MAX_RETRIES

\* sleep(currentDelay) is over: the delay doubles and the loop goes round
SleepReturn(r) ==
    /\ req[r].pc = "sleep"
    /\ req[r].sleepLeft = 0
    /\ LET q == [req[r] EXCEPT !.delays = Append(@, req[r].currentDelay),
                               !.currentDelay = NextDelay(@),
                               !.attempt = @ + 1]
       IN  req' = [req EXCEPT ![r] =
                      IF LoopContinues(q.attempt)
                      THEN [q EXCEPT !.pc = "fetch", !.nFetch = @ + 1]
                      ELSE Rethrow(q, PlainError("Error",
                                       Msg("Translation failed after maximum retries."), 0),
                                   production)]
    /\ UNCHANGED <<config, health, redisClient, store, log, hits, phase, since, sinceAdmitted, faults>>

CacheWrittenPropagates(q, fault, prod) ==
    IF fault
    THEN Fail(q, q.route, PlainError("Error", Msg("cache write failed"), 0), prod)
    ELSE Finish([q EXCEPT !.wrote = TRUE],
                ResultResp(Result(q.src, q.targetLang, q.translated,
                                  StatusType(q.forceRefresh))))

\* the outcome of the cache write (src/main.js 230-243): responseData is
\* returned whether setEx has returned or thrown
CacheWritten(q, fault, prod) ==
    Finish([q EXCEPT !.wrote = ~fault],
           ResultResp(Result(q.src, q.targetLang, q.translated, StatusType(q.forceRefresh))))

\* redisClient.setEx(cacheKey, CACHE_EXPIRY_SECONDS, ...) returns or throws
\* (src/main.js 230-243)
SetReturn(r, fault) ==
    /\ req[r].pc = "set"
    /\ LET q == [req[r] EXCEPT !.cacheOk = @ /\ ~fault]
           pair == <<q.text, q.targetLang>>
       IN  /\ store' = IF fault THEN store
                       ELSE [store EXCEPT ![cacheKey(q.text, q.targetLang)] =
                                Entry(JSONstringify(cacheData(q.src, q.translated)),
                                      CACHE_EXPIRY_SECONDS)]
           /\ log' = IF fault THEN log ELSE [log EXCEPT ![pair] = Append(@, r)]
           /\ req' = [req EXCEPT ![r] =
                         [CacheWritten(q, fault, production)
                          EXCEPT !.logEnd = Len(log'[pair])]]
    /\ UNCHANGED <<config, health, redisClient, hits, phase, since, sinceAdmitted, faults>>

\* GET /api/health is registered without the limiter (src/main.js 288)
LimiterOnHealthToo == TRUE
LimiterOnHealth == FALSE

\* const healthStatus = {...} (src/main.js 299-306); the timestamp is left out
NoHealth == [kind |-> "none", status |-> 0, redis |-> "", groq_api |-> ""]
HealthStatus(redisStatus, key) ==
    [kind |-> "health", status |-> 200, redis |-> redisStatus,
     groq_api |-> IF key THEN "configured" ELSE "not_configured"]
LimitedHealth == [kind |-> "error", status |-> 429, redis |-> "", groq_api |-> ""]

\* GET /api/health is handled (src/main.js 288-309): redisClient.ping()
\* returns or throws, and the status is sent
Health(ident, pingOk) ==
    /\ LET id == keyGenerator(ident)
           h == Hit(hits[id], WindowLeft(limiterKind, phase))
           redisStatus == IF redisClient = "client" /\ pingOk
                          THEN "connected" ELSE "disconnected"
       IN  IF LimiterOnHealth
           THEN /\ hits' = [hits EXCEPT ![id] = h]
                /\ health' = IF Limited(h) THEN LimitedHealth
                              ELSE HealthStatus(redisStatus, apiKey)
           ELSE /\ hits' = hits
                /\ health' = HealthStatus(redisStatus, apiKey)
    /\ UNCHANGED <<config, redisClient, store, log, phase, since, sinceAdmitted, req, faults>>

\* the client's 'error' event, or a failed connect() (src/main.js 27-34)
RedisError ==
    /\ redisClient = "client"
    /\ redisClient' = "null"
    /\ UNCHANGED <<config, health, store, log, hits, phase, since, sinceAdmitted, req, faults>>

\* the store drops an entry whose time-to-live has run out
Expire(k) ==
    /\ store[k].present
    /\ store[k].ttl > 0
    /\ store' = [store EXCEPT ![k] = NoEntry]
    /\ log' = [p \in DOMAIN log |->
                  IF cacheKey(p[1], p[2]) = k THEN Append(log[p], 0) ELSE log[p]]
    /\ UNCHANGED <<config, health, redisClient, hits, phase, since, sinceAdmitted, req, faults>>

\* d ms pass: windows and sleeps run down
Min(a, b) == IF a < b THEN a ELSE b

Elapse(d) ==
    /\ hits' = [k \in DOMAIN hits |-> Aged(hits[k], d)]
    /\ since' = [k \in DOMAIN since |-> Min(since[k] + d, WindowMs)]
    /\ sinceAdmitted' = [k \in DOMAIN sinceAdmitted |-> Min(sinceAdmitted[k] + d, WindowMs)]
    /\ phase' = IF limiterKind = "global" THEN (phase + d) % WindowMs ELSE phase
    /\ req' = [r \in Slots |->
                  IF req[r].pc = "sleep"
                  THEN [req[r] EXCEPT !.sleepLeft = IF @ <= d THEN 0 ELSE @ - d]
                  ELSE req[r]]

\* time passes: half a limiter window
TickMs == WindowMs \div 2

Tick ==
    /\ Elapse(TickMs)
    /\ UNCHANGED <<config, health, redisClient, store, log, faults>>

\* time passes until the next timer of a sleeping call is due
Sleeping == {r \in Slots : req[r].pc = "sleep" /\ req[r].sleepLeft > 0}

AdvanceTimer ==
    /\ Sleeping # {}
    /\ Elapse(req[CHOOSE r \in Sleeping :
                     \A p \in Sleeping : req[r].sleepLeft <= req[p].sleepLeft].sleepLeft)
    /\ UNCHANGED <<config, health, redisClient, store, log, faults>>
\* ------------------------------------------------------------------------
\* Specifications
\* ------------------------------------------------------------------------
EmptyStore == [k \in StoreKeys |-> NoEntry]
\* the store holds, from before the process started, an entry written with
\* another source language than the detector finds now
LegacyStore ==
    [EmptyStore EXCEPT ![cacheKey(Hi, Fr)] =
        Entry(JSONstringify(cacheData("ES", Salut)), 0)]
\* the store holds, from before the process started, a value that is no JSON
ForeignStore == [EmptyStore EXCEPT ![cacheKey(Hi, Fr)] = Entry(Garbage, 0)]

Environment(slots, nfaults, raws, idents, replies, track) ==
    [slots |-> slots, faults |-> nfaults, raws |-> raws,
     idents |-> idents, replies |-> replies, track |-> track]

InitWith(e, keys, modes, kinds, stores) ==
    /\ apiKey \in keys
    /\ production \in modes
    /\ limiterKind \in kinds
    /\ redisClient = "client"
    /\ store \in stores
    /\ phase = 0
    /\ since = [k \in Identities |-> WindowMs]
    /\ sinceAdmitted = [k \in Identities |-> WindowMs]
    /\ log = [p \in ValidPairs |-> <<>>]
    /\ faults = 0
    /\ health = NoHealth
    /\ hits = [k \in Identities |-> NoHits]
    /\ req = [r \in 1..e.slots |-> IdleReq]
    /\ env = e
    /\ vin = NoBody
    /\ vout = NoValidation
    /\ KeysAtRest
    /\ PageAtRest

Next ==
    \/ \E r \in Slots, route \in Routes, raw \in env.raws, ident \in env.idents :
          Receive(r, route, raw, ident)
    \/ \E r \in Slots, fault \in BOOLEAN : GetReturn(r, fault)
    \/ \E r \in Slots, reply \in env.replies : FetchReturn(r, reply)
    \/ \E r \in Slots : SleepReturn(r)
    \/ \E r \in Slots, fault \in BOOLEAN : SetReturn(r, fault)
    \/ RedisError
    \/ \E k \in StoreKeys : Expire(k)
    \/ Tick
    \/ AdvanceTimer

\* The pipeline: overlapping requests of one client for two valid bodies,
\* over a store that is empty or holds a value that is no JSON.
Init ==
    InitWith(Environment(MaxReqs, MaxFaults,
                         {Parsed(BodyHiFr), Parsed(BodyHiDe)},
                         {[xff |-> "", ip |-> "ip1"]}, {Reply503, ReplyHola, ReplySalut}, FALSE),
             {TRUE}, {TRUE}, {"client"}, {EmptyStore, ForeignStore})

Spec == Init /\ [][Next]_vars

\* One call at a time against an upstream that may fail every attempt, in
\* each of the ways an attempt can fail; the errors of the attempts are
\* kept. The store is empty, or holds an entry from before the process started.
RetryReplies == {ReplyTransport, Reply503, Reply429, ReplyNoChoices, ReplyBlankFirst,
                 ReplyHola}

InitRetry ==
    InitWith(Environment(1, MAX_RETRIES, {Parsed(BodyHiFr)},
                         {[xff |-> "", ip |-> "ip1"]}, RetryReplies, TRUE),
             {TRUE}, {TRUE}, {"client"}, {EmptyStore, LegacyStore})

SpecRetry == InitRetry /\ [][Next]_vars

\* The HTTP surface: any body, with and without the API key, in and out of
\* production mode.
InitHttp ==
    InitWith(Environment(MaxReqs, MaxFaults, Raws, {[xff |-> "", ip |-> "ip1"]},
                         {Reply503, ReplyHola}, FALSE),
             BOOLEAN, BOOLEAN, {"client"}, {EmptyStore})

SpecHttp == InitHttp /\ [][Next]_vars

\* The limiter: two clients behind one address, under either way of
\* counting windows.
InitLimiter ==
    InitWith(Environment(MaxReqs, MaxFaults,
                         {Malformed, Parsed(BodyEmptyText), Parsed(BodyHiFr)}, Idents,
                         {Reply503, ReplyHola}, FALSE),
             {TRUE}, {TRUE}, {"client", "global"}, {EmptyStore})

SpecLimiter == InitLimiter /\ [][Next]_vars

\* ------------------------------------------------------------------------
\* validateInput on its own
\* ------------------------------------------------------------------------
LongA(n) == Rep("a", n)

ValidateTexts ==
    { JsUndef, JsNum(5), JsNum(0), JsStr(<<>>), JsStr(<<" ", "\n">>), JsStr(Hi),
      JsStr(<<" ">> \o Hi \o <<"\n">>),
      JsStr(LongA(MAX_TEXT_LENGTH - 1)),
      JsStr(LongA(MAX_TEXT_LENGTH)),
      JsStr(LongA(MAX_TEXT_LENGTH + 1)),
      JsStr(LongA(MAX_TEXT_LENGTH + 2)),
      JsStr(<<" ">> \o LongA(MAX_TEXT_LENGTH)),
      JsStr(LongA(MAX_TEXT_LENGTH) \o <<"\n">>),
      JsStr(<<" ">> \o LongA(MAX_TEXT_LENGTH + 1) \o <<" ">>),
      JsStr(LongA(MAX_TEXT_LENGTH - 1) \o <<" ", "a">>),
      JsStr(Rep(" ", MAX_TEXT_LENGTH + 1)) }

ValidateLangs ==
    { JsUndef, JsNum(7), JsStr(<<>>), JsStr(<<" ">>), JsStr(Fr),
      JsStr(<<" ">> \o Fr \o <<" ">>), JsStr(<<"p", "t", "-", "B", "R">>),
      JsStr(<<"O", "l", "d", " ", "E", "n">>), JsStr(<<"f", "r", "1">>),
      JsStr(<<"f", "|", "r">>), JsStr(<<"-">>), JsStr(<<"f", "\n", "r">>) }

ValidateInputs == {NoBody} \cup {Body(t, l) : t \in ValidateTexts, l \in ValidateLangs}

NoEnvironment == Environment(0, 0, {}, {}, {}, FALSE)

InitValidate ==
    /\ vin \in ValidateInputs
    /\ vout = NoValidation
    /\ apiKey = TRUE
    /\ production = TRUE
    /\ limiterKind = "client"
    /\ redisClient = "client"
    /\ store = EmptyStore
    /\ hits = [k \in Identities |-> NoHits]
    /\ phase = 0
    /\ since = [k \in Identities |-> WindowMs]
    /\ sinceAdmitted = [k \in Identities |-> WindowMs]
    /\ log = [p \in ValidPairs |-> <<>>]
    /\ req = <<>>
    /\ faults = 0
    /\ health = NoHealth
    /\ env = NoEnvironment
    /\ KeysAtRest
    /\ PageAtRest

\* validateInput(vin) is called
Validate ==
    /\ vout = NoValidation
    /\ vout' = validateInput(vin)
    /\ UNCHANGED <<apiKey, production, limiterKind, redisClient, store, log, hits, phase,
                   since, sinceAdmitted, req, faults, health, env, vin, kin, kout, page>>

NextValidate == Validate

SpecValidate == InitValidate /\ [][NextValidate]_vars

Validating == vout # NoValidation

TextTooLongError(n) ==
    TranslationError(MsgNum("Text too long. Maximum # characters.", MAX_TEXT_LENGTH), 400,
                     StrDetails(MsgNum("Text length: # characters", n)))

\* the text of the body, trimmed, when the body has a string there
TrimmedText == Trim(OrEmpty(vin.text).s)
StringInputs == vin.present /\ OrEmpty(vin.text).t = "string"
                            /\ OrEmpty(vin.target_lang).t = "string"

\* C10 as stated, by the length of the text as sent: a text of 2001
\* characters is rejected with 400 and details reporting 2001, and a text of
\* 2000 characters with a valid target language is accepted.
C10_AsStated ==
    (Validating /\ StringInputs) =>
        /\ Len(vin.text.s) = MAX_TEXT_LENGTH + 1
              => vout = Threw(TextTooLongError(MAX_TEXT_LENGTH + 1))
        /\ (Len(vin.text.s) = MAX_TEXT_LENGTH /\ vin.target_lang = JsStr(Fr)) => vout.ok

\* C10, amended: validateInput rejects the text as too long, with status 400
\* and details reporting the trimmed length, exactly when the length of the
\* text after trimming exceeds 2000; a trimmed length of 2001 is rejected
\* with details reporting 2001, and a trimmed length of exactly 2000 with a
\* valid target language is accepted with the trimmed text.
C10_TooLongIffTrimmedOver2000 ==
    (Validating /\ StringInputs) =>
        /\ (Len(TrimmedText) > MAX_TEXT_LENGTH)
              <=> (~vout.ok /\ vout.err.message.s = "Text too long. Maximum # characters.")
        /\ Len(TrimmedText) > MAX_TEXT_LENGTH
              => vout = Threw(TextTooLongError(Len(TrimmedText)))
        /\ (Len(TrimmedText) = MAX_TEXT_LENGTH /\ LangFormatOk(Trim(vin.target_lang.s)))
              => vout = Validated(TrimmedText, Trim(vin.target_lang.s))

\* a text of 2002 characters whose trimmed length is 2001 has been rejected
\* with details reporting 2001
C10_Witness ==
    /\ Validating
    /\ vin.text.t = "string" /\ Len(vin.text.s) = MAX_TEXT_LENGTH + 3
    /\ vout = Threw(TextTooLongError(MAX_TEXT_LENGTH + 1))

\* ------------------------------------------------------------------------
\* Cache and status properties of the pipeline
\* ------------------------------------------------------------------------
\* the request in slot r has been answered with a translation result
Succeeded(r) == req[r].pc = "done" /\ req[r].resp.kind = "result"

\* the validated inputs of a request
PairOf(r) == <<req[r].text, req[r].targetLang>>

\* j is a translate call that arrived after the translate call i, with the
\* same inputs, was answered, and both returned a result
TranslatedTwice(i, j) ==
    /\ i \in req[j].seen
    /\ req[i].route = "translate" /\ req[j].route = "translate"
    /\ Succeeded(i) /\ Succeeded(j)
    /\ PairOf(i) = PairOf(j)

\* between the answer to i and the answer to j nothing but j itself has
\* changed the cache entry of their inputs
EntryKept(i, j) ==
    \A n \in (req[i].logEnd + 1)..req[j].logEnd : log[PairOf(j)][n] = j

\* C1 as stated: whenever translate is called twice with the same valid
\* inputs, the second call returns status "cached" and the translated_text
\* the first call returned.
C1_AsStated ==
    \A i \in Slots, j \in Slots :
        TranslatedTwice(i, j) =>
            /\ req[j].resp.result.status = "cached"
            /\ req[j].resp.result.translated_text = req[i].resp.result.translated_text

\* C1, amended: when translate is called twice with the same valid inputs,
\* the cache client is connected and none of its operations fails during
\* either call, and the entry is neither dropped by the store nor written by
\* another request between the two answers, the second call returns status
\* "cached" and the translated_text the first call returned.
C1_CachedWhileEntryKept ==
    \A i \in Slots, j \in Slots :
        (TranslatedTwice(i, j) /\ req[i].cacheOk /\ req[j].cacheOk /\ EntryKept(i, j)) =>
            /\ req[j].resp.result.status = "cached"
            /\ req[j].resp.result.translated_text = req[i].resp.result.translated_text

\* a first call that went to the upstream and wrote the entry, and a second
\* call that was served from it
C1_Witness ==
    \E i \in Slots, j \in Slots :
        /\ TranslatedTwice(i, j) /\ req[i].cacheOk /\ req[j].cacheOk /\ EntryKept(i, j)
        /\ req[i].resp.result.status = "generated" /\ req[i].wrote
        /\ req[j].resp.result.status = "cached"
        /\ req[j].nFetch = 0
        /\ req[j].resp.result.translated_text = req[i].translated

\* C2: a successful retranslate returns status "regenerated", never
\* "cached"; a successful translate returns "cached" or "generated", never
\* "regenerated".
C2_StatusByRoute ==
    \A r \in Slots :
        Succeeded(r) =>
            /\ req[r].route = "retranslate" => req[r].resp.result.status = "regenerated"
            /\ req[r].route = "translate" =>
                  req[r].resp.result.status \in {"cached", "generated"}

\* a retranslate answered "regenerated" although the cache held, when it
\* arrived, an entry for its inputs written by an earlier request
C2_Witness ==
    \E i \in Slots, j \in Slots :
        /\ i \in req[j].seen /\ req[i].wrote /\ PairOf(i) = PairOf(j)
        /\ req[j].cacheOk /\ EntryKept(i, j)
        /\ req[j].route = "retranslate" /\ Succeeded(j)
        /\ req[j].resp.result.status = "regenerated"

\* the step of slot r that sends a translation result
Answers(r) == req[r].pc # "done" /\ req'[r].pc = "done" /\ req'[r].resp.kind = "result"

\* the cache entry a call leaves for its inputs
FreshEntry(q) ==
    Entry(JSONstringify(cacheData(getSourceLanguage(q.text), q.translated)),
          CACHE_EXPIRY_SECONDS)

\* C3 as stated: a call with forceRefresh never reads the cache, and when it
\* returns a result the entry of its inputs holds, at that moment, the
\* freshly detected source language and the fresh text.
C3_AsStated ==
    [][\A r \in Slots :
          (Answers(r) /\ req[r].forceRefresh) =>
              /\ req'[r].nGet = 0
              /\ store'[cacheKey(req[r].text, req[r].targetLang)] = FreshEntry(req'[r])]_vars

\* C3, amended: a call with forceRefresh never reads the cache; when its
\* upstream call succeeds it writes the entry of its inputs if the cache
\* client is connected at that moment, and unless that write throws the
\* entry holds the freshly detected source language and the fresh text when
\* the result is returned.
C3_NoReadBestEffortWrite ==
    [][\A r \in Slots :
          (Answers(r) /\ req[r].forceRefresh) =>
              /\ req'[r].nGet = 0
              /\ req[r].pc = "set" \/ redisClient = "null"
              /\ req'[r].wrote =>
                    store'[cacheKey(req[r].text, req[r].targetLang)] = FreshEntry(req'[r])]_vars

\* a retranslate has replaced, without reading it, the entry an earlier
\* request wrote with another text
C3_Witness ==
    \E i \in Slots, j \in Slots :
        /\ i \in req[j].seen /\ req[i].wrote /\ PairOf(i) = PairOf(j)
        /\ req[j].forceRefresh /\ Succeeded(j) /\ req[j].wrote /\ req[j].nGet = 0
        /\ req[i].translated # req[j].translated
        /\ store[cacheKey(req[j].text, req[j].targetLang)] = FreshEntry(req[j])

\* the cache could not be read by the call in slot r: the client handle was
\* absent, the read threw, or the stored value did not parse
CacheUnreadable(r) ==
    /\ req[r].stage = "route" /\ ~req[r].forceRefresh
    /\ <<req[r].text, req[r].targetLang>> \in ValidPairs
    /\ \/ req[r].read \in {"threw", "unparseable"}
       \/ req[r].read = "none" /\ ~req[r].cacheOk

\* C4: a translate call that cannot read the cache goes on to the upstream;
\* it is answered with status "generated" once an attempt succeeds, and the
\* only error it can be answered with is the upstream's, after the last
\* attempt.
C4_ReadFailureIsMiss ==
    \A r \in Slots :
        CacheUnreadable(r) =>
            /\ req[r].nFetch >= 1
            /\ req[r].pc = "done" =>
                  \/ /\ Succeeded(r)
                     /\ req[r].resp.result.status = "generated"
                     /\ req[r].resp.result.translated_text = req[r].translated
                  \/ /\ req[r].attempt = MAX_RETRIES - 1
                     /\ req[r].err = Classify(req[r].thrown)
                     /\ req[r].thrown.cls # "none"

\* a translate call answered "generated" after reading a value that is no JSON
C4_Witness ==
    \E r \in Slots :
        /\ CacheUnreadable(r) /\ req[r].read = "unparseable"
        /\ Succeeded(r) /\ req[r].resp.result.status = "generated"

\* ------------------------------------------------------------------------
\* Retry properties of callGroqApiWithBackoff (behaviours of SpecRetry,
\* where req[r].errs holds the error of every failed attempt, in order)
\* ------------------------------------------------------------------------
\* C5: a call makes at most MAX_RETRIES attempts; every failed attempt but
\* the fifth is followed by a sleep and another attempt, whatever the kind
\* of its failure; no attempt follows a successful one; and a call that
\* fails has made MAX_RETRIES attempts and fails with the error of the
\* last of them.
C5_FiveAttemptsLastError ==
    \A r \in Slots :
        LET q == req[r]
        IN  /\ q.nFetch <= MAX_RETRIES
            /\ q.pc = "fetch" => q.nFetch = Len(q.errs) + 1
            /\ q.pc = "sleep" => q.nFetch = Len(q.errs) /\ Len(q.errs) < MAX_RETRIES
            /\ (q.pc \in {"set", "done"} /\ q.nFetch >= 1) =>
                  \/ /\ q.thrown = NoError
                     /\ q.translated # <<>>
                     /\ q.nFetch = Len(q.errs) + 1
                  \/ /\ q.pc = "done" /\ q.resp.kind # "result"
                     /\ q.nFetch = MAX_RETRIES
                     /\ Len(q.errs) = MAX_RETRIES
                     /\ q.thrown = q.errs[MAX_RETRIES]
                     /\ q.err = Classify(q.errs[MAX_RETRIES])

\* a call that failed after five attempts of all three kinds of failure,
\* the fifth unlike the first and the fourth
C5_Witness ==
    \E r \in Slots :
        /\ req[r].pc = "done" /\ Len(req[r].errs) = MAX_RETRIES
        /\ req[r].thrown = req[r].errs[MAX_RETRIES]
        /\ req[r].errs[MAX_RETRIES] # req[r].errs[1]
        /\ req[r].errs[MAX_RETRIES] # req[r].errs[MAX_RETRIES - 1]
        /\ {Attempt(Reply503).err, Attempt(ReplyNoChoices).err, Attempt(ReplyBlankFirst).err}
               \subseteq {req[r].errs[n] : n \in 1..MAX_RETRIES}
        /\ req[r].resp.status = 400

RECURSIVE SumSeq(_)
SumSeq(s) == IF s = <<>> THEN 0 ELSE Head(s) + SumSeq(Tail(s))

\* C6: a call whose attempts 1 to 4 failed and whose attempt 5 succeeded is
\* answered with the translation, no error is passed on, and the delays it
\* has slept through add up to at least 1000 + 2000 + 4000 + 8000 ms.
C6_FifthAttemptSucceeds ==
    \A r \in Slots :
        (req[r].pc = "done" /\ Len(req[r].errs) = MAX_RETRIES - 1) =>
            /\ Succeeded(r)
            /\ req[r].resp.status = 200
            /\ req[r].resp.result.translated_text = Trim(ReplyHola.choices[1].content)
            /\ req[r].err = NoError
            /\ req[r].nFetch = MAX_RETRIES
            /\ req[r].delays = <<BASE_DELAY, 2 * BASE_DELAY, 4 * BASE_DELAY, 8 * BASE_DELAY>>
            /\ SumSeq(req[r].delays) >= 15000

\* a call answered with the translation after four failed attempts
C6_Witness ==
    \E r \in Slots :
        /\ req[r].pc = "done" /\ Len(req[r].errs) = MAX_RETRIES - 1
        /\ Succeeded(r) /\ SumSeq(req[r].delays) = 15000

\* ------------------------------------------------------------------------
\* Error responses (behaviours of SpecHttp)
\* ------------------------------------------------------------------------
\* the request in slot r was answered with a status that is not 2xx
Refused(r) ==
    req[r].pc = "done" /\ ~(req[r].resp.status >= 200 /\ req[r].resp.status <= 299)

\* C7 as stated: every response that is not 2xx has the JSON body {error,
\* details, status_code}; but for the limiter's it is what the error
\* middleware makes of the error, and an error that is no TranslationError
\* yields 500 with its message in details; no response shows a stack trace.
C7_AsStated ==
    \A r \in Slots :
        Refused(r) =>
            /\ req[r].resp.kind = "error"
            /\ req[r].resp.status_code = req[r].resp.status
            /\ ~req[r].resp.stack
            /\ req[r].stage # "limiter" => req[r].resp = AppErrorHandler(req[r].err)
            /\ (req[r].stage # "limiter" /\ req[r].err.cls # "TranslationError") =>
                  /\ req[r].resp.status = 500
                  /\ req[r].resp.details = StrDetails(req[r].err.message)

ConfigError == TranslationError(Msg("API key not configured"), 500, NullDetails)

\* C8 as stated: with no API key every request is answered 500 with the
\* configuration error, and no request reads or writes the cache or calls
\* the upstream.
C8_AsStated ==
    ~apiKey =>
        \A r \in Slots :
            /\ req[r].nGet = 0 /\ req[r].nSet = 0 /\ req[r].nFetch = 0
            /\ req[r].pc = "done" =>
                  req[r].resp.status = 500 /\ req[r].err = ConfigError

\* C8, amended: with no API key, every request that reaches its route
\* handler, whatever its body, fails with the configuration error and is
\* answered 500; a request the limiter refuses is answered 429 and a request
\* whose body is no JSON is answered 500 by the error middleware, before the
\* route; no request reads or writes the cache or calls the upstream.
C8_ConfigErrorAtRoute ==
    ~apiKey =>
        \A r \in Slots :
            /\ req[r].pc \in {"idle", "done"}
            /\ req[r].nGet = 0 /\ req[r].nSet = 0 /\ req[r].nFetch = 0
            /\ req[r].pc = "done" =>
                  /\ req[r].stage = "route" =>
                        req[r].err = ConfigError /\ req[r].resp.status = 500
                  /\ req[r].stage = "limiter" => req[r].resp = LimitResp
                  /\ req[r].stage = "json" =>
                        /\ req[r].resp.status = 500
                        /\ req[r].resp.error = Msg("Internal server error")

\* with no API key, a translate and a retranslate were both answered with
\* the configuration error
C8_Witness ==
    /\ ~apiKey
    /\ \E i \in Slots, j \in Slots :
          /\ req[i].route = "translate" /\ req[j].route = "retranslate"
          /\ req[i].pc = "done" /\ req[j].pc = "done"
          /\ req[i].stage = "route" /\ req[j].stage = "route"
          /\ req[i].err = ConfigError /\ req[j].err = ConfigError
          /\ req[i].resp.status = 500 /\ req[j].resp.status = 500

\* ------------------------------------------------------------------------
\* Rate limit (behaviours of SpecLimiter)
\* ------------------------------------------------------------------------
\* the request in slot r has been counted by the limiter and answered
Counted(r) == req[r].pc = "done" /\ req[r].stage # "json"

InWindow(r) ==
    IF limiterKind = "client"
    THEN req[r].gapAdmitted < WindowMs
    ELSE req[r].gap <= req[r].phase

Stringy(v) == OrEmpty(v).t = "string"

EmptyTextError == TranslationError(Msg("Text cannot be empty"), 400, NullDetails)
EmptyTargetLangError == TranslationError(Msg("Target language cannot be empty"), 400, NullDetails)
InvalidTargetLangFormatError ==
    TranslationError(Msg("Invalid target language format"), 400,
                     StrDetails(Msg("Use only letters, spaces, and hyphens")))

\* the rules in the order the specification lists them: body present, text
\* not empty, text not too long, target language not empty, target language
\* well formed
StatedOrder(data) ==
    IF ~data.present
    THEN Threw(TranslationError(Msg("Request must be JSON"), 400, NullDetails))
    ELSE LET text == Trim(OrEmpty(data.text).s)
             lang == Trim(OrEmpty(data.target_lang).s)
         IN  IF text = <<>> THEN Threw(EmptyTextError)
             ELSE IF Len(text) > MAX_TEXT_LENGTH THEN Threw(TextTooLongError(Len(text)))
             ELSE IF lang = <<>> THEN Threw(EmptyTargetLangError)
             ELSE IF \E i \in 1..Len(lang) : lang[i] \notin Letters \cup WS \cup {"-"}
             THEN Threw(InvalidTargetLangFormatError)
             ELSE Validated(text, lang)

\* C11: for every body whose text and target_lang are strings (or absent),
\* and for a missing body, validateInput reports what the rules report when
\* applied in the stated order (present, EmptyText, TextTooLong,
\* EmptyTargetLang, InvalidTargetLangFormat): checking too-long before empty,
\* as the code does, changes no outcome.
C11_SameAsStatedOrder ==
    (Validating /\ (vin.present => Stringy(vin.text) /\ Stringy(vin.target_lang))) =>
        vout = StatedOrder(vin)

\* a text of 2001 spaces with an ill-formed target language: too long as
\* sent, empty once trimmed, and reported as empty
C11_Witness ==
    /\ Validating
    /\ vin.text = JsStr(Rep(" ", MAX_TEXT_LENGTH + 1))
    /\ vin.target_lang = JsStr(<<"f", "r", "1">>)
    /\ vout = Threw(EmptyTextError)

\* the characters a target language may be made of: [A-Za-z\s-]
LangChars == Letters \cup WS \cup {"-"}

\* C12: a target_lang string with a character that is no letter (A-Z, a-z),
\* whitespace or hyphen, such as a digit or other punctuation, is never
\* accepted, and is rejected with a TranslationError of status 400 whenever
\* the text is a string; a target_lang that is not empty after trimming and
\* made only of letters, whitespace and hyphens is accepted, trimmed, with
\* any text that is valid.
C12_TargetLangFormat ==
    (Validating /\ vin.present /\ vin.target_lang.t = "string") =>
        LET lang == vin.target_lang.s
        IN  /\ (\E i \in 1..Len(lang) : lang[i] \notin LangChars) =>
                  /\ ~vout.ok
                  /\ Stringy(vin.text) =>
                        vout.err.cls = "TranslationError" /\ vout.err.statusCode = 400
            /\ ( /\ Trim(lang) # <<>>
                 /\ \A i \in 1..Len(lang) : lang[i] \in LangChars
                 /\ vin.text.t = "string"
                 /\ Trim(vin.text.s) # <<>>
                 /\ Len(Trim(vin.text.s)) <= MAX_TEXT_LENGTH ) =>
                  vout = Validated(Trim(vin.text.s), Trim(lang))

\* "fr1" is rejected for its format although the text is valid
C12_Witness ==
    /\ Validating
    /\ vin.text = JsStr(Hi)
    /\ vin.target_lang = JsStr(<<"f", "r", "1">>)
    /\ vout = Threw(InvalidTargetLangFormatError)

\* C13 as stated: for every raw body validateInput returns a validated pair
\* or fails with a TranslationError of status 400, never with another error.
C13_AsStated ==
    Validating =>
        \/ vout.ok
        \/ vout.err.cls = "TranslationError" /\ vout.err.statusCode = 400

\* ------------------------------------------------------------------------
\* Classification of upstream failures (behaviours of SpecRetry)
\* ------------------------------------------------------------------------
\* the status the specification gives the failure of an attempt: the
\* upstream's status when that is not ok, 400 for a first choice that is
\* empty once trimmed, 500 for anything else
StatedStatus(reply) ==
    IF reply.net /\ ~(reply.status >= 200 /\ reply.status <= 299) THEN reply.status
    ELSE IF /\ reply.net /\ reply.json /\ Len(reply.choices) > 0
            /\ reply.choices[1].has /\ Trim(reply.choices[1].content) = <<>>
    THEN 400
    ELSE 500

\* C14: a call of processTranslation fails only after MAX_RETRIES failed
\* attempts, and then with a TranslationError whose status is given by the
\* last attempt's failure: the upstream's status N when that was not ok,
\* 400 when the translation was empty after trimming, 500 otherwise.
C14_ClassifiedByLastFailure ==
    \A r \in Slots :
        (req[r].pc = "done" /\ req[r].thrown # NoError) =>
            /\ req[r].nFetch = MAX_RETRIES
            /\ Len(req[r].errs) = MAX_RETRIES
            /\ req[r].resp.kind # "result"
            /\ req[r].err.cls = "TranslationError"
            /\ req[r].err.statusCode = StatedStatus(req[r].lastReply)
            /\ req[r].err.details = StrDetails(req[r].errs[MAX_RETRIES].message)

\* a call that fails with 429, the status of its fifth attempt, after a
\* fourth attempt that returned an empty translation and a first that met a
\* transport fault
C14_Witness ==
    \E r \in Slots :
        /\ req[r].pc = "done" /\ Len(req[r].errs) = MAX_RETRIES
        /\ req[r].lastReply = Reply429
        /\ req[r].errs[MAX_RETRIES - 1] = Attempt(ReplyBlankFirst).err
        /\ req[r].errs[1] = Attempt(ReplyTransport).err
        /\ req[r].err.statusCode = 429

\* ------------------------------------------------------------------------
\* Cache writes and cache hits
\* ------------------------------------------------------------------------
\* C15: a call whose upstream call has succeeded is answered with the
\* result, carrying the fresh text and status "generated" or "regenerated"
\* by its route, whether the cache write was made, threw, or was skipped
\* for want of a client; no error is passed on.
C15_WriteFailureKeepsResult ==
    \A r \in Slots :
        (req[r].pc = "done" /\ req[r].translated # <<>>) =>
            /\ Succeeded(r)
            /\ req[r].err = NoError
            /\ req[r].resp.status = 200
            /\ req[r].resp.result.translated_text = req[r].translated
            /\ req[r].resp.result.status =
                  IF req[r].route = "retranslate" THEN "regenerated" ELSE "generated"

\* a retranslate and a translate, each answered with its fresh text: the
\* write of the one threw, the other found no client to write with
C15_Witness ==
    \E i \in Slots, j \in Slots :
        /\ Succeeded(i) /\ req[i].nSet = 1 /\ ~req[i].wrote
        /\ req[i].resp.result.translated_text = req[i].translated
        /\ req[i].resp.result.status = "regenerated"
        /\ Succeeded(j) /\ req[j].nFetch = 1 /\ req[j].nSet = 0
        /\ req[j].resp.result.status = "generated"
        /\ ~store[cacheKey(req[i].text, req[i].targetLang)].present

\* the cache entry of the inputs of the request in slot r
EntryOf(r) == store[cacheKey(req[r].text, req[r].targetLang)]

\* the step in which the cache read of slot r returns, without throwing,
\* an entry that parses
HitStep(r) ==
    /\ req[r].pc = "get" /\ req'[r].pc # "get"
    /\ req'[r].cacheOk
    /\ EntryOf(r).present /\ EntryOf(r).val.json

\* C16: on a cache hit the call is answered at once with status "cached",
\* the source language and the translated text of the entry (not the source
\* language detected for this call) and the requested target language; it
\* makes no upstream call and leaves the cache as it is.
C16_HitReturnsEntry ==
    [][\A r \in Slots :
          HitStep(r) =>
              /\ req'[r].pc = "done"
              /\ req'[r].resp =
                    ResultResp(Result(EntryOf(r).val.obj.source_language, req[r].targetLang,
                                      EntryOf(r).val.obj.translated_text, "cached"))
              /\ req'[r].nFetch = 0 /\ req'[r].nSet = 0
              /\ store' = store]_vars

\* a call answered from an entry whose source language is not the one
\* detected for its text
C16_Witness ==
    \E r \in Slots :
        /\ Succeeded(r) /\ req[r].read = "hit" /\ req[r].nFetch = 0
        /\ req[r].resp.result.status = "cached"
        /\ req[r].resp.result.source_language = "ES"
        /\ getSourceLanguage(req[r].text) # "ES"
        /\ req[r].resp.result.translated_text = Salut
        /\ EntryOf(r) = LegacyStore[cacheKey(Hi, Fr)]

\* ------------------------------------------------------------------------
\* Validation failures at the routes (behaviours of SpecHttp)
\* ------------------------------------------------------------------------
\* the request in slot r reached validateInput, which threw
FailedValidation(r) ==
    /\ apiKey /\ req[r].pc = "done" /\ req[r].stage = "route"
    /\ req[r].text = <<>>

\* C17 as stated: a request whose input fails validation is answered 400,
\* and has made no cache read, no cache write and no upstream call.
C17_AsStated ==
    \A r \in Slots :
        FailedValidation(r) =>
            /\ req[r].resp.status = 400
            /\ req[r].nGet = 0 /\ req[r].nSet = 0 /\ req[r].nFetch = 0

\* ------------------------------------------------------------------------
\* Backoff waits (behaviours of SpecRetry)
\* ------------------------------------------------------------------------
RECURSIVE Pow2(_)
Pow2(n) == IF n = 0 THEN 1 ELSE 2 * Pow2(n - 1)

\* the first n waits of a schedule that starts at BASE_DELAY and doubles
Waits(n) == [k \in 1..n |-> BASE_DELAY * Pow2(k - 1)]

\* C18 as stated: each failed attempt, the fifth included, is followed by a
\* wait, so that a call that is not waiting has waited 1000, 2000, 4000,
\* 8000, 16000 ms after its 1st to 5th failed attempt.
C18_AsStated ==
    \A r \in Slots :
        req[r].pc # "sleep" => req[r].delays = Waits(Len(req[r].errs))

\* C18, amended: each of the first four failed attempts is followed by a
\* wait, of 1000, 2000, 4000 and 8000 ms (starting at BASE_DELAY and
\* doubling); the fifth failed attempt is followed by no wait: the call
\* fails at once with that attempt's error.
C18_FourWaits ==
    \A r \in Slots :
        LET q == req[r]
            failed == Len(q.errs)
        IN  /\ q.pc = "sleep" =>
                  /\ failed < MAX_RETRIES
                  /\ q.delays = Waits(failed - 1)
                  /\ q.currentDelay = BASE_DELAY * Pow2(failed - 1)
                  /\ q.sleepLeft <= q.currentDelay
            /\ (q.pc # "sleep" /\ failed < MAX_RETRIES) => q.delays = Waits(failed)
            /\ failed = MAX_RETRIES =>
                  /\ q.pc = "done" /\ q.thrown = q.errs[MAX_RETRIES]
                  /\ q.delays = Waits(MAX_RETRIES - 1)

\* a call that failed after its fifth attempt, having waited four times
C18_Witness ==
    \E r \in Slots :
        /\ req[r].pc = "done" /\ Len(req[r].errs) = MAX_RETRIES
        /\ req[r].delays = <<1000, 2000, 4000, 8000>>

\* ------------------------------------------------------------------------
\* Concurrent writers (behaviours of Spec)
\* ------------------------------------------------------------------------
\* C19: the cache entry of a (text, targetLang) is, until a request writes
\* it, what the store held when the process started; from then on it is
\* absent, when the store dropped it last, or else exactly the entry of the
\* request that wrote it last: that request's source language with that
\* request's translated text.
C19_LastWriterWins ==
    \A p \in ValidPairs :
        LET e == store[cacheKey(p[1], p[2])]
            n == Len(log[p])
        IN  IF n = 0 THEN ~e.present \/ e.ttl = 0
            ELSE IF log[p][n] = 0 THEN ~e.present
            ELSE /\ PairOf(log[p][n]) = p
                 /\ req[log[p][n]].wrote
                 /\ e = Entry(JSONstringify(
                                cacheData(req[log[p][n]].resp.result.source_language,
                                          req[log[p][n]].resp.result.translated_text)),
                              CACHE_EXPIRY_SECONDS)

\* two requests for the same inputs ran side by side, both missed the cache
\* and were given different texts by the upstream; both have written, and
\* the entry is that of the later writer
C19_Witness ==
    \E i \in Slots, j \in Slots :
        /\ i # j /\ PairOf(i) = PairOf(j)
        /\ i \notin req[j].seen /\ j \notin req[i].seen
        /\ req[i].read = "miss" /\ req[j].read = "miss"
        /\ Succeeded(i) /\ Succeeded(j)
        /\ req[i].translated # req[j].translated
        /\ log[PairOf(i)] = <<i, j>>
        /\ EntryOf(j).val.obj.translated_text = req[j].translated

\* ------------------------------------------------------------------------
\* Accepted upstream responses (behaviours of SpecRetry)
\* ------------------------------------------------------------------------
\* the text has a character and is not made of whitespace alone
Usable(text) == text # <<>> /\ \E i \in 1..Len(text) : text[i] \notin WS

\* C20: a call holds a translated text only from a reply whose first choice
\* has, once trimmed, a content that is not empty, and the text is that
\* trimmed content; no result returned after an upstream call and no entry
\* written to the cache by a request carries an empty or whitespace-only
\* text.
C20_AcceptedFirstChoice ==
    /\ \A r \in Slots :
          /\ req[r].translated # <<>> =>
                /\ req[r].lastReply.net /\ req[r].lastReply.json
                /\ req[r].lastReply.status >= 200 /\ req[r].lastReply.status <= 299
                /\ Len(req[r].lastReply.choices) >= 1
                /\ req[r].lastReply.choices[1].has
                /\ req[r].translated = Trim(req[r].lastReply.choices[1].content)
                /\ Usable(req[r].translated)
          /\ (req[r].pc \in {"sleep"} \/ req[r].thrown # NoError) =>
                req[r].translated = <<>>
          /\ (Succeeded(r) /\ req[r].nFetch >= 1) =>
                /\ req[r].resp.result.translated_text = req[r].translated
                /\ Usable(req[r].resp.result.translated_text)
    /\ \A p \in ValidPairs :
          LET e == store[cacheKey(p[1], p[2])]
          IN  (e.present /\ e.ttl > 0) => e.val.json /\ Usable(e.val.obj.translated_text)

\* a call was refused a reply whose first choice is blank and whose second
\* is not, and accepted a later reply, trimmed
C20_Witness ==
    \E r \in Slots :
        /\ Succeeded(r) /\ req[r].wrote
        /\ req[r].errs # <<>>
        /\ req[r].errs[Len(req[r].errs)] = Attempt(ReplyBlankFirst).err
        /\ req[r].lastReply = ReplyHola
        /\ req[r].resp.result.translated_text = Hola
        /\ EntryOf(r).val.obj.translated_text = Hola

\* ------------------------------------------------------------------------
\* Termination and resources of a call (behaviours of SpecRetryFair)
\* ------------------------------------------------------------------------
\* the pending await of the call in slot r completes: the cache read, an
\* attempt's fetch, a backoff sleep whose timer is due, or the cache write
Returns(r) ==
    \/ \E fault \in BOOLEAN : GetReturn(r, fault)
    \/ \E reply \in env.replies : FetchReturn(r, reply)
    \/ SleepReturn(r)
    \/ \E fault \in BOOLEAN : SetReturn(r, fault)

\* SpecRetry where every upstream call and every cache operation returns
\* and every timer set by sleep() fires
SpecRetryFair == SpecRetry /\ WF_vars(Returns(1)) /\ WF_vars(AdvanceTimer)

\* the request in slot r has passed the limiter, the key check and
\* validation: processTranslation has been called for it
Accepted(r) == req[r].nGet + req[r].nFetch > 0

\* what a call has used, and how it ended if it has
WithinBudget(q) ==
    /\ q.nGet <= 1
    /\ q.nFetch <= MAX_RETRIES
    /\ Len(q.delays) <= MAX_RETRIES - 1
    /\ q.nSet <= 1
    /\ q.forceRefresh => q.nGet = 0
    /\ q.pc = "fetch" => q.nFetch = Len(q.errs) + 1
    /\ q.pc = "sleep" => q.nFetch = Len(q.errs)
    /\ (q.pc = "done" /\ q.nGet + q.nFetch > 0) =>
          \/ q.resp.kind = "result" /\ q.read = "hit" /\ q.nFetch = 0 /\ q.nSet = 0
          \/ /\ q.resp.kind = "result" /\ Attempt(q.lastReply).ok
             /\ q.nFetch = Len(q.errs) + 1
          \/ /\ q.resp.kind # "result" /\ q.nSet = 0
             /\ q.nFetch = MAX_RETRIES /\ Len(q.errs) = MAX_RETRIES
             /\ ~Attempt(q.lastReply).ok

C21_Bounded == \A r \in Slots : WithinBudget(req[r])

\* C21: a processTranslation call performs at most one cache read, at most
\* MAX_RETRIES upstream calls, at most MAX_RETRIES - 1 backoff waits and at
\* most one cache write; its attempts stop only at the first that succeeds
\* or at the fifth that fails; and, where every upstream call, cache
\* operation and timer returns, every accepted request is answered.
C21_CallTerminates ==
    /\ []C21_Bounded
    /\ Accepted(1) ~> (req[1].pc = "done" /\ req[1].resp # NoResp)

\* a call that used all it may: one cache read, five attempts, four waits
\* and one cache write
C21_Witness ==
    /\ req[1].pc = "done" /\ req[1].resp.kind = "result"
    /\ req[1].nGet = 1 /\ req[1].nFetch = MAX_RETRIES
    /\ Len(req[1].delays) = MAX_RETRIES - 1 /\ req[1].nSet = 1

\* ------------------------------------------------------------------------
\* Failed calls and the cache (behaviours of SpecRetry)
\* ------------------------------------------------------------------------
\* the step in which the call of slot r fails: its fifth attempt has failed
FailStep(r) ==
    /\ req[r].pc # "done" /\ req'[r].pc = "done"
    /\ req'[r].nFetch > 0 /\ req'[r].resp.kind # "result"

\* the step in which the call of slot r writes the entry of key k after an
\* attempt of it has succeeded
SuccessWrites(r, k) ==
    /\ req[r].pc = "set" /\ req'[r].pc = "done"
    /\ k = cacheKey(req[r].text, req[r].targetLang)
    /\ Attempt(req[r].lastReply).ok
    /\ req[r].translated = Attempt(req[r].lastReply).text
    /\ store'[k] = FreshEntry(req[r])
    /\ req'[r].resp.kind = "result"
    /\ req'[r].resp.result.translated_text = req[r].translated

\* the slots that have written an entry
Writers == UNION {{log[p][n] : n \in 1..Len(log[p])} : p \in DOMAIN log}

\* C22: a call whose attempts are exhausted makes no cache write, on either
\* route: the step in which it fails changes no entry and it has never
\* written one; an entry is created or replaced only by the write of a call
\* whose attempt succeeded (the store itself only drops entries).
C22_FailedCallWritesNothing ==
    [][/\ \A r \in Slots :
             FailStep(r) =>
                 /\ store' = store
                 /\ req'[r].nSet = 0 /\ ~req'[r].wrote
                 /\ r \notin Writers'
                 /\ req'[r].nFetch = MAX_RETRIES
       /\ \A k \in StoreKeys :
             (store'[k] # store[k] /\ store'[k].present) =>
                 \E r \in Slots : SuccessWrites(r, k)]_vars

\* a retranslate that failed after five attempts while the entry of its
\* inputs, there since before the process started, is still in the store
C22_Witness ==
    \E r \in Slots :
        /\ req[r].pc = "done" /\ req[r].forceRefresh
        /\ req[r].resp.kind # "result" /\ req[r].nFetch = MAX_RETRIES
        /\ store = LegacyStore
        /\ EntryOf(r) = LegacyStore[cacheKey(Hi, Fr)]

\* ------------------------------------------------------------------------
\* The cache key on its own: the keys of two request bodies
\* (src/main.js 66-99, 188)
\* ------------------------------------------------------------------------
KeyTexts ==
    { <<>>, Hi, <<"h", "i">>, <<" ">> \o Hi \o <<"\n">>, <<"H", "i", "f">>,
      <<"H", "i", "|">>, <<"H", "i", "|", "f", "r">>, <<"H", "i", "|", "f">>,
      <<"|">>, <<"H", " ", "i">> }

KeyLangs ==
    { <<>>, Fr, <<"F", "r">>, <<"F", "R">>, <<"r">>, <<" ">> \o Fr \o <<" ">>,
      <<"f", "|", "r">>, <<"f", " ", "r">>, <<"f", "r", "-", "r">>, <<"f", "-", "r">> }

KeyBodies == {Body(JsStr(t), JsStr(l)) : t \in KeyTexts, l \in KeyLangs}

\* what processTranslation is called with, and the key it derives
\* (src/main.js 317-320, 188)
Keyed(data) ==
    LET v == validateInput(data)
    IN  [ok |-> v.ok, text |-> v.text, targetLang |-> v.targetLang,
         key |-> IF v.ok THEN cacheKey(v.text, v.targetLang) ELSE <<>>]

InitKey ==
    /\ kin \in KeyBodies \X KeyBodies
    /\ kout = NoKeys
    /\ vin = NoBody
    /\ vout = NoValidation
    /\ apiKey = TRUE
    /\ production = TRUE
    /\ limiterKind = "client"
    /\ redisClient = "client"
    /\ store = EmptyStore
    /\ hits = [k \in Identities |-> NoHits]
    /\ phase = 0
    /\ since = [k \in Identities |-> WindowMs]
    /\ sinceAdmitted = [k \in Identities |-> WindowMs]
    /\ log = [p \in ValidPairs |-> <<>>]
    /\ req = <<>>
    /\ faults = 0
    /\ health = NoHealth
    /\ env = NoEnvironment
    /\ PageAtRest

\* both bodies are validated and the keys of those that pass are derived
DeriveKeys ==
    /\ kout = NoKeys
    /\ kout' = <<Keyed(kin[1]), Keyed(kin[2])>>
    /\ UNCHANGED <<apiKey, production, limiterKind, redisClient, store, log, hits, phase,
                   since, sinceAdmitted, req, faults, health, env, vin, vout, kin, page>>

NextKey == DeriveKeys

SpecKey == InitKey /\ [][NextKey]_vars

\* C23: two validated pairs have the same cache key exactly when they are
\* the same pair: pairs that differ in text or in target language, be it
\* only in letter case or by a '|' in the text, have different keys.
C23_KeyInjective ==
    (kout # NoKeys /\ kout[1].ok /\ kout[2].ok) =>
        ((kout[1].key = kout[2].key) <=>
            (kout[1].text = kout[2].text /\ kout[1].targetLang = kout[2].targetLang))

\* two validated pairs that differ in text and in target language, whose
\* texts have the separator in them and whose characters run together to
\* the same string: "Hi|f" with "r", and "Hi|" with "fr"
C23_Witness ==
    /\ kout # NoKeys /\ kout[1].ok /\ kout[2].ok
    /\ kout[1].text = <<"H", "i", "|", "f">> /\ kout[1].targetLang = <<"r">>
    /\ kout[2].text = <<"H", "i", "|">> /\ kout[2].targetLang = Fr
    /\ kout[1].text \o kout[1].targetLang = kout[2].text \o kout[2].targetLang
    /\ kout[1].key # kout[2].key

\* ------------------------------------------------------------------------
\* The cache handle once it is null (behaviours of SpecRetry)
\* ------------------------------------------------------------------------
\* the call of slot r is awaiting no cache operation
NoCachePending(r) == req[r].pc \notin {"get", "set"}

\* C24 as stated: from the moment redisClient is null no call reads or
\* writes an entry and every translate that succeeds is answered
\* "generated".
C24_AsStated ==
    [][redisClient = "null" =>
          /\ redisClient' = "null"
          /\ \A r \in Slots :
                /\ req'[r].read = req[r].read
                /\ req'[r].wrote = req[r].wrote
                /\ (Answers(r) /\ req[r].route = "translate") =>
                       req'[r].resp.result.status = "generated"]_vars

\* C24, amended: once redisClient is null it stays null; from then on no
\* call starts a cache read or write; a request received from then on goes
\* straight to the upstream; a call that is awaiting no cache operation is
\* answered "generated" (translate) or "regenerated" (retranslate), never
\* "cached", and has written nothing, or fails with the classified error of
\* its fifth attempt and for no other reason. A get or setEx that was
\* awaited when the handle was cleared may still complete: the call is then
\* answered as with a live handle.
C24_NullHandleStaysNull ==
    [][redisClient = "null" =>
          /\ redisClient' = "null"
          /\ \A r \in Slots :
                /\ req'[r].nGet = req[r].nGet /\ req'[r].nSet = req[r].nSet
                /\ (req[r].pc = "idle" /\ req'[r].pc # "idle") =>
                      /\ req'[r].pc \in {"done", "fetch"}
                      /\ req'[r].nGet = 0
                /\ (req[r].pc = "get" /\ req'[r].pc # "get") =>
                      \/ req'[r].pc = "fetch"
                      \/ Answers(r) /\ req'[r].resp.result.status = "cached"
                /\ (req[r].pc = "set" /\ req'[r].pc # "set") => Answers(r)
                /\ (NoCachePending(r) /\ req[r].pc # "done" /\ req'[r].pc = "done"
                    /\ req'[r].nFetch > 0) =>
                      \/ /\ Answers(r)
                         /\ req'[r].resp.result.status = StatusType(req[r].forceRefresh)
                         /\ req'[r].resp.result.status # "cached"
                         /\ ~req'[r].wrote /\ store' = store
                      \/ /\ req'[r].resp.kind # "result"
                         /\ Len(req'[r].errs) = MAX_RETRIES
                         /\ req'[r].err = Classify(req'[r].errs[MAX_RETRIES])]_vars

\* a translate received after the handle was cleared and answered
\* "generated" although the store holds an entry for its inputs
C24_Witness ==
    \E r \in Slots :
        /\ redisClient = "null"
        /\ Succeeded(r) /\ req[r].route = "translate"
        /\ req[r].nGet = 0 /\ req[r].nSet = 0 /\ req[r].nFetch >= 1
        /\ req[r].resp.result.status = "generated"
        /\ EntryOf(r).present /\ EntryOf(r).val.json

\* ------------------------------------------------------------------------
\* The limiter in front of the routes (behaviours of SpecGate)
\* ------------------------------------------------------------------------
\* The three routes under /api: POSTs of two clients behind one address,
\* with and without the API key, under either way of counting windows, and
\* health checks at any time.
InitGate ==
    InitWith(Environment(MaxReqs, MaxFaults, {Parsed(BodyHiFr)},
                         Idents, {Reply503, ReplyHola}, FALSE),
             BOOLEAN, {TRUE}, {"client", "global"}, {EmptyStore})

NextGate ==
    \/ Next
    \/ \E ident \in env.idents, pingOk \in BOOLEAN : Health(ident, pingOk)

SpecGate == InitGate /\ [][NextGate]_vars

\* the request in slot r was refused by the limiter
RateLimited(r) == req[r].pc = "done" /\ req[r].resp = LimitResp

\* a request refused by the limiter has got no further: no key check, no
\* validation, no cache operation, no upstream call
StoppedAtLimiter(r) ==
    /\ req[r].resp.status = 429
    /\ req[r].stage = "limiter"
    /\ req[r].err = NoError /\ req[r].thrown = NoError
    /\ req[r].text = <<>> /\ req[r].targetLang = <<>>
    /\ req[r].nGet = 0 /\ req[r].nFetch = 0 /\ req[r].nSet = 0
    /\ req[r].read = "none" /\ ~req[r].wrote

\* C25: a request the limiter refuses is answered 429 before the key check,
\* validation and the pipeline, and causes none of them; a request of either
\* route that arrives in a window in which its client has already made a
\* request of either route is refused; GET /api/health is answered 200
\* whatever the limiter has counted, and is not counted.
C25_LimiterFirstAndShared ==
    /\ [](/\ \A r \in Slots : RateLimited(r) => StoppedAtLimiter(r)
          /\ \A i \in Slots, j \in Slots :
                (i < j /\ Counted(i) /\ Counted(j) /\ ~RateLimited(i)
                 /\ ClientOf(req[i].ident) = ClientOf(req[j].ident) /\ InWindow(j)) =>
                    RateLimited(j)
          /\ health.kind # "none" => health.kind = "health" /\ health.status = 200)
    /\ [][health' # health => hits' = hits /\ req' = req]_vars

\* a translate answered with its result, a retranslate of the same client
\* refused half a second later, and a health check answered while that
\* client is over the limit
C25_Witness ==
    \E i \in Slots, j \in Slots :
        /\ i < j /\ req[i].route = "translate" /\ req[j].route = "retranslate"
        /\ req[i].ident = req[j].ident
        /\ Succeeded(i) /\ RateLimited(j) /\ req[j].gap = TickMs
        /\ hits[keyGenerator(req[j].ident)].count > LimitMax
        /\ health.status = 200 /\ health.redis = "connected"

\* ------------------------------------------------------------------------
\* The playground page (src/unnamed/part_000): makeRequest, step by step.
\* A step runs from one await to the next; an AbortController is named by
\* the number of the invocation that made it.
\* ------------------------------------------------------------------------
Disabled == [translateBtn |-> TRUE, retranslateBtn |-> TRUE]

\* setLoading(isLoading) (src/unnamed/part_000 13-27)
setLoading(isLoading) == [translateBtn |-> isLoading, retranslateBtn |-> isLoading]

\* the values of the text and targetLang fields when makeRequest reads them
PageTexts == {<<>>, <<" ">>, Hi, LongA(MAX_TEXT_LENGTH + 1)}
PageLangs == {<<>>, Fr}

\* the checks of makeRequest on the trimmed fields, in order: what it
\* shows and returns with, or "" when the request is to be sent
InputError(text, targetLang) ==
    IF Trim(text) = <<>> THEN "Please enter text to translate"
    ELSE IF Trim(targetLang) = <<>> THEN "Please enter target language"
    ELSE IF Len(Trim(text)) > 2000
    THEN "Text exceeds maximum length of 2000 characters"
    ELSE ""

\* an invocation of makeRequest: where it stands, and whether abort() has
\* been called on its controller
Call(endpoint, pc) == [endpoint |-> endpoint, pc |-> pc, aborted |-> FALSE, ok |-> FALSE]

\* if (currentRequest) { currentRequest.abort(); }
Aborting(cs, current) ==
    IF current # NoController THEN [cs EXCEPT ![current].aborted = TRUE] ELSE cs

\* makeRequest(endpoint) up to its first await (src/unnamed/part_000 47-87)
makeRequest(endpoint, text, targetLang) ==
    /\ Len(calls) < MaxCalls
    /\ IF InputError(text, targetLang) # ""
       THEN /\ calls' = Append(Aborting(calls, currentRequest), Call(endpoint, "returned"))
            /\ resultDiv' = "error"
            /\ UNCHANGED <<currentRequest, buttons>>
       ELSE /\ calls' = Append(Aborting(calls, currentRequest), Call(endpoint, "fetch"))
            /\ buttons' = setLoading(TRUE)
            /\ resultDiv' = "loading"
            /\ currentRequest' = Len(calls) + 1

server == <<apiKey, production, limiterKind, redisClient, store, log, hits, phase, since,
            sinceAdmitted, req, faults, health, env, vin, vout, kin, kout>>

\* onclick of the Translate button: translateText(); a disabled button
\* gets no click
ClickTranslate(text, targetLang) ==
    /\ ~buttons.translateBtn
    /\ makeRequest("/api/translate", text, targetLang)
    /\ UNCHANGED server

\* onclick of the Retranslate button: retranslateText()
ClickRetranslate(text, targetLang) ==
    /\ ~buttons.retranslateBtn
    /\ makeRequest("/api/retranslate", text, targetLang)
    /\ UNCHANGED server

\* Enter in the targetLang field: translateText(), whatever the buttons are
\* (src/unnamed/part_000 134-138)
EnterKey(text, targetLang) ==
    /\ makeRequest("/api/translate", text, targetLang)
    /\ UNCHANGED server

\* finally { setLoading(false); currentRequest = null; } after the catch
\* block, which shows the error unless it is an AbortError
Settle(i, shown) ==
    /\ calls' = [calls EXCEPT ![i].pc = "done"]
    /\ resultDiv' = IF shown = "" THEN resultDiv ELSE shown
    /\ buttons' = setLoading(FALSE)
    /\ currentRequest' = NoController

\* the fetch of invocation i settles: it rejects with an AbortError when
\* its controller has been aborted, else it resolves with a response or
\* rejects with a network error
FetchSettles(i, outcome) ==
    /\ i \in 1..Len(calls) /\ calls[i].pc = "fetch"
    /\ IF calls[i].aborted
       THEN Settle(i, "")
       ELSE IF outcome = "network error"
       THEN Settle(i, "error")
       ELSE /\ calls' = [calls EXCEPT ![i].pc = "json", ![i].ok = outcome = "ok"]
            /\ UNCHANGED <<currentRequest, buttons, resultDiv>>
    /\ UNCHANGED server

\* response.json() of invocation i settles, and makeRequest runs to its end
\* (src/unnamed/part_000 89-123)
JsonSettles(i, parsed) ==
    /\ i \in 1..Len(calls) /\ calls[i].pc = "json"
    /\ IF calls[i].aborted
       THEN Settle(i, "")
       ELSE IF parsed /\ calls[i].ok
       THEN Settle(i, "result")
       ELSE Settle(i, "error")
    /\ UNCHANGED server

InitPage ==
    /\ PageAtRest
    /\ KeysAtRest
    /\ vin = NoBody
    /\ vout = NoValidation
    /\ apiKey = TRUE
    /\ production = TRUE
    /\ limiterKind = "client"
    /\ redisClient = "client"
    /\ store = EmptyStore
    /\ hits = [k \in Identities |-> NoHits]
    /\ phase = 0
    /\ since = [k \in Identities |-> WindowMs]
    /\ sinceAdmitted = [k \in Identities |-> WindowMs]
    /\ log = [p \in ValidPairs |-> <<>>]
    /\ req = <<>>
    /\ faults = 0
    /\ health = NoHealth
    /\ env = NoEnvironment

NextPage ==
    \/ \E text \in PageTexts, targetLang \in PageLangs : ClickTranslate(text, targetLang)
    \/ \E text \in PageTexts, targetLang \in PageLangs : ClickRetranslate(text, targetLang)
    \/ \E text \in PageTexts, targetLang \in PageLangs : EnterKey(text, targetLang)
    \/ \E i \in 1..MaxCalls, outcome \in {"ok", "not ok", "network error"} :
          FetchSettles(i, outcome)
    \/ \E i \in 1..MaxCalls, parsed \in BOOLEAN : JsonSettles(i, parsed)

SpecPage == InitPage /\ [][NextPage]_vars

\* the fetch of invocation i, or the reading of its response, is under way
\* and has not been aborted
InFlight(i) == calls[i].pc \in {"fetch", "json"} /\ ~calls[i].aborted

\* C26 as stated: at most one fetch that has not been aborted is in flight;
\* while one is, currentRequest holds its AbortController and both buttons
\* are disabled, so that the end of an aborted request leaves the controller
\* and the loading state of the request that replaced it as they are.
C26_AsStated ==
    /\ Cardinality({i \in 1..Len(calls) : InFlight(i)}) <= 1
    /\ \A i \in 1..Len(calls) :
          InFlight(i) => currentRequest = i /\ buttons = Disabled

====
